---- MODULE Spec2Model ----
(***************************************************************************)
(* Chef Claude web client: the token endpoint (src/app/api/token/route.ts) *)
(* and the page component (src/unnamed/part_000): Home, VoiceAssistantUI,  *)
(* useTimers and the inbound data-message handler handleData.              *)
(*                                                                         *)
(* JavaScript values are kept as tagged records so that the code's         *)
(* truthiness tests (a || b, !a) and property reads on arbitrary JSON are  *)
(* computed as the code computes them.                                     *)
(***************************************************************************)
EXTENDS Integers, Sequences, FiniteSets, TLC

VARIABLES
    env,                \* process.env of the server: LIVEKIT_API_KEY / _SECRET / _URL
    response,           \* the last HTTP response of GET /api/token
    minted,             \* every access token signed by the endpoint so far
    connectionDetails,  \* Home: useState(null)
    connected,          \* the room connection held by LiveKitRoom
    now,                \* Date.now(), in seconds
    timers,             \* useTimers: useState([])
    nextId,             \* useTimers: nextId ref
    alarms,             \* labels passed to playAlarm, in order
    cameraRequest,      \* VoiceAssistantUI: useState(false)
    recipe,             \* VoiceAssistantUI: useState(null)
    dishSuggestions,    \* VoiceAssistantUI: useState([])
    groceryList,        \* VoiceAssistantUI: useState([])
    groceryListOpen,    \* VoiceAssistantUI: useState(false)
    isCameraEnabled,    \* localParticipant.isCameraEnabled
    facingMode,         \* VoiceAssistantUI: useState("environment")
    expanded,           \* RecipeCard: useState(false)
    activeTab,          \* RecipeCard: useState("steps")
    checkbox,           \* the grocery checkbox under the user's finger, as last rendered
    outbox,             \* publishData calls whose promise has not settled yet
    uncaught,           \* an exception escaped the last handler that ran
    lastEvent           \* which handler ran last, and on what

serverVars == <<env, response, minted>>
homeVars   == <<connectionDetails, connected>>
timerVars  == <<timers, nextId, alarms>>
panelVars  == <<cameraRequest, recipe, dishSuggestions, groceryList, groceryListOpen>>
mediaVars  == <<isCameraEnabled, facingMode>>
cardVars   == <<expanded, activeTab>>
vars == <<env, response, minted, connectionDetails, connected, now, timers, nextId,
          alarms, cameraRequest, recipe, dishSuggestions, groceryList,
          groceryListOpen, isCameraEnabled, facingMode, expanded, activeTab, checkbox,
          outbox, uncaught, lastEvent>>

---------------------------------------------------------------------------
(* Bounds of the model.                                                    *)

MaxTime == 3        \* the clock runs from 0 to MaxTime seconds
MaxTimers == 2      \* at most this many addTimer calls in a run
MaxInFlight == 1    \* at most this many unsettled publishData calls

---------------------------------------------------------------------------
(* JavaScript values.                                                      *)

Undefined == [k |-> "undefined"]
JNull     == [k |-> "null"]
JNum(n)   == [k |-> "num", v |-> n]
JStr(s)   == [k |-> "str", v |-> s]
JList(s)  == [k |-> "list", v |-> s]
JObj(f)   == [k |-> "obj", v |-> f]

\* ToBoolean: what `!x`, `x || y` and `x ? a : b` test.
Truthy(x) ==
    CASE x.k = "undefined" -> FALSE
      [] x.k = "null"      -> FALSE
      [] x.k = "num"       -> x.v # 0
      [] x.k = "str"       -> x.v # ""
      [] OTHER             -> TRUE

\* a || b
Or(a, b) == IF Truthy(a) THEN a ELSE b

\* Reading a property of null or undefined throws a TypeError.
Nullish(x) == x.k \in {"undefined", "null"}

\* x.f for a non-nullish x: own property of an object, undefined otherwise
\* (none of the names read by the code is a built-in of a number, string or array).
Get(x, f) == IF x.k = "obj" /\ f \in DOMAIN x.v THEN x.v[f] ELSE Undefined

\* { ...a, ...b }: b's keys win.
Spread(a, b) == [f \in DOMAIN a \cup DOMAIN b |-> IF f \in DOMAIN b THEN b[f] ELSE a[f]]

---------------------------------------------------------------------------
(* GET /api/token  (src/app/api/token/route.ts)                            *)

EnvValues == {Undefined, JStr(""), JStr("set")}
EnvNames == {"LIVEKIT_API_KEY", "LIVEKIT_API_SECRET", "LIVEKIT_URL"}
Identities == {"user-a", "user-b"}

NoResponse == [status |-> 0, body |-> Undefined]

\* `chef-claude-${Date.now()}`
RoomName(t) == <<"chef-claude", t>>

\* !apiKey || !apiSecret || !livekitUrl
CredentialsMissing_AllOf(e) ==
    ~Truthy(e["LIVEKIT_API_KEY"]) /\ ~Truthy(e["LIVEKIT_API_SECRET"]) /\ ~Truthy(e["LIVEKIT_URL"])

CredentialsMissing(e) ==
    ~Truthy(e["LIVEKIT_API_KEY"]) \/ ~Truthy(e["LIVEKIT_API_SECRET"]) \/ ~Truthy(e["LIVEKIT_URL"])

\* new AccessToken(apiKey, apiSecret, {identity}); addGrant({...}); toJwt()
AccessToken(e, t, identity) ==
    [apiKey |-> e["LIVEKIT_API_KEY"], apiSecret |-> e["LIVEKIT_API_SECRET"],
     identity |-> identity,
     video |-> [roomJoin |-> TRUE, room |-> RoomName(t),
                canPublish |-> TRUE, canSubscribe |-> TRUE]]

ErrorBody == JObj([error |-> JStr("LiveKit credentials not configured")])

\* The response of one request made at time t by a participant named identity.
GET(e, t, identity) ==
    IF CredentialsMissing(e)
    THEN [status |-> 500, body |-> ErrorBody]
    ELSE [status |-> 200,
          body |-> JObj([token |-> [k |-> "jwt", v |-> AccessToken(e, t, identity)],
                         url |-> e["LIVEKIT_URL"]])]

\* What a request leaves behind on the server: the tokens it signed.
Minted(e, t, identity) ==
    IF CredentialsMissing(e) THEN {} ELSE {AccessToken(e, t, identity)}

---------------------------------------------------------------------------
(* Home  (part_000, lines 878-919)                                         *)

Ev(op, type, outcome) == [op |-> op, type |-> type, outcome |-> outcome]

\* No checkbox of the grocery list is about to be clicked.
NoCheckbox == [recipeIdx |-> -1]

\* `!connectionDetails ? <Start Cooking> : <LiveKitRoom ...>`
RoomMounted(details) == Truthy(details)

StartScreen(details) == ~RoomMounted(details)

\* The props LiveKitRoom is mounted with.
RoomToken(details) == Get(details, "token")
RoomServerUrl(details) == Get(details, "url")

\* connect: fetch("/api/token"), res.json(), setConnectionDetails(details).
\* The status of the response is not read.
ConnectDetails(res) == res.body

Connect(identity) ==
    /\ StartScreen(connectionDetails)
    /\ response' = GET(env, now, identity)
    /\ minted' = minted \cup Minted(env, now, identity)
    /\ connectionDetails' = ConnectDetails(response')
    /\ lastEvent' = Ev("connect", "", "")
    /\ UNCHANGED <<env, connected, now, timerVars, panelVars, mediaVars, cardVars, checkbox,
                   outbox, uncaught>>

\* LiveKitRoom connect={true}: the library opens the connection once it is
\* mounted with a token and a server url.
RoomConnects ==
    /\ RoomMounted(connectionDetails)
    /\ ~connected
    /\ Truthy(RoomToken(connectionDetails))
    /\ Truthy(RoomServerUrl(connectionDetails))
    /\ connected' = TRUE
    /\ lastEvent' = Ev("roomConnected", "", "")
    /\ UNCHANGED <<serverVars, connectionDetails, now, timerVars, panelVars, mediaVars,
                   cardVars, checkbox, outbox, uncaught>>

\* onDisconnected={() => setConnectionDetails(null)}; VoiceAssistantUI unmounts
\* and its state is gone.
OnDisconnected ==
    /\ connected
    /\ connected' = FALSE
    /\ connectionDetails' = JNull
    /\ timers' = <<>> /\ nextId' = 0 /\ alarms' = <<>>
    /\ cameraRequest' = FALSE /\ recipe' = JNull
    /\ dishSuggestions' = JList(<<>>) /\ groceryList' = <<>>
    /\ groceryListOpen' = FALSE
    /\ isCameraEnabled' = FALSE /\ facingMode' = "environment"
    /\ expanded' = FALSE /\ activeTab' = "steps"
    /\ checkbox' = NoCheckbox
    /\ outbox' = <<>>
    /\ lastEvent' = Ev("disconnected", "", "")
    /\ UNCHANGED <<serverVars, now, uncaught>>

\* Date.now() advances.
AdvanceClock ==
    /\ now < MaxTime
    /\ now' = now + 1
    /\ lastEvent' = Ev("clock", "", "")
    /\ UNCHANGED <<serverVars, homeVars, timerVars, panelVars, mediaVars, cardVars,
                   checkbox, outbox, uncaught>>

---------------------------------------------------------------------------
(* useTimers  (part_000, lines 50-118)                                     *)

NaN == [k |-> "nan"]

\* durationSeconds * 1000 added to Date.now(): a number stays a number, null
\* counts as 0, undefined gives NaN.
EndsAt(t, durationSeconds) ==
    CASE durationSeconds.k = "num"  -> JNum(t + durationSeconds.v)
      [] durationSeconds.k = "null" -> JNum(t)
      [] OTHER                      -> NaN

\* t.endsAt <= now and t.endsAt > now; both are false of NaN.
IsExpired(timer, t) == timer.endsAt.k = "num" /\ timer.endsAt.v <= t
IsRunning(timer, t) == timer.endsAt.k = "num" /\ timer.endsAt.v > t

Expired(ts, t) == SelectSeq(ts, LAMBDA x : IsExpired(x, t))
StillRunning(ts, t) == SelectSeq(ts, LAMBDA x : IsRunning(x, t))
Labels(ts) == [i \in 1..Len(ts) |-> ts[i].label]

\* The "Check for expired timers" effect, run on timer list ts at time t:
\* the timer list it leaves and the alarms it plays.
TimersAfterEffect(ts, t) == IF Len(Expired(ts, t)) > 0 THEN StillRunning(ts, t) ELSE ts
AlarmsOfEffect(ts, t) == Labels(Expired(ts, t))

\* setTimers((prev) => [...prev, {id, label, endsAt, duration}])
WithTimer(ts, id, label, durationSeconds, t) ==
    Append(ts, [id |-> id, label |-> label, endsAt |-> EndsAt(t, durationSeconds),
                duration |-> durationSeconds])

\* setTimers((prev) => prev.filter((t) => t.id !== id))
WithoutTimer(ts, id) == SelectSeq(ts, LAMBDA x : x.id # id)

\* The effect's dependency list is [timers]: a render caused by the one-second
\* tick alone does not run it.
EffectRunsOnTick == FALSE

\* setInterval(() => setTick((t) => t + 1), 1000): one second passes and the
\* component renders again.
Tick ==
    /\ now < MaxTime
    /\ now' = now + 1
    /\ IF EffectRunsOnTick
       THEN /\ timers' = TimersAfterEffect(timers, now')
            /\ alarms' = alarms \o AlarmsOfEffect(timers, now')
       ELSE UNCHANGED <<timers, alarms>>
    /\ lastEvent' = Ev("tick", "", "")
    /\ UNCHANGED <<serverVars, homeVars, nextId, panelVars, mediaVars, cardVars,
                   checkbox, outbox, uncaught>>

\* The dismiss button of a displayed timer.
DismissTimer(id) ==
    /\ \E i \in 1..Len(timers) : timers[i].id = id
    /\ timers' = TimersAfterEffect(WithoutTimer(timers, id), now)
    /\ alarms' = alarms \o AlarmsOfEffect(WithoutTimer(timers, id), now)
    /\ lastEvent' = Ev("dismissTimer", "", "")
    /\ UNCHANGED <<serverVars, homeVars, now, nextId, panelVars, mediaVars, cardVars,
                   checkbox, outbox, uncaught>>

---------------------------------------------------------------------------
(* RecipeCard  (part_000, lines 158-393)                                   *)

Tabs == {"ingredients", "steps"}

\* recipe.currentStep && recipe.currentStep >= 1.  The step number of a
\* message is a number or is missing; undefined >= 1 is false.
StepIsSet(currentStep) ==
    Truthy(currentStep) /\ currentStep.k = "num" /\ currentStep.v >= 1

\* The effect "switch to steps tab" run on a card that shows recipe r:
\* setActiveTab("steps"); if (!expanded) setExpanded(true).
ExpandedAfterEffect(r, exp) == IF StepIsSet(Get(r, "currentStep")) THEN TRUE ELSE exp
ActiveTabAfterEffect(r, tab) == IF StepIsSet(Get(r, "currentStep")) THEN "steps" ELSE tab

\* The dependency list of the effect is [recipe.currentStep]: it runs in the
\* render that mounts the card and in every render where currentStep is not
\* the value of the render before.
EffectRuns(prev, next) ==
    \/ ~Truthy(prev)
    \/ Get(next, "currentStep") # Get(prev, "currentStep")

\* The steps tab, for the step numbered stepNum (1-based):
\* isCurrent = recipe.currentStep === stepNum;
\* isPast = recipe.currentStep ? stepNum < recipe.currentStep : false.
IsCurrent(r, stepNum) == Get(r, "currentStep") = JNum(stepNum)

IsPast(r, stepNum) ==
    LET currentStep == Get(r, "currentStep")
    IN  IF Truthy(currentStep)
        THEN currentStep.k = "num" /\ stepNum < currentStep.v
        ELSE FALSE

\* recipe.steps.map((step, i) => ...): the step numbers the steps tab lists.
StepNums(r) == 1..Len(Get(r, "steps").v)

\* {recipe && <RecipeCard .../>}: the card's state once the recipe has gone
\* from prev to next.  A card that is not mounted has no state, and the next
\* one starts from useState(false) and useState("steps").
ExpandedOn(prev, next, exp) ==
    IF ~Truthy(next) THEN FALSE
    ELSE IF EffectRuns(prev, next)
         THEN ExpandedAfterEffect(next, IF Truthy(prev) THEN exp ELSE FALSE)
         ELSE exp

ActiveTabOn(prev, next, tab) ==
    IF ~Truthy(next) THEN "steps"
    ELSE IF EffectRuns(prev, next)
         THEN ActiveTabAfterEffect(next, IF Truthy(prev) THEN tab ELSE "steps")
         ELSE tab

---------------------------------------------------------------------------
(* VoiceAssistantUI: the inbound data-message handler (part_000, 598-677)  *)

\* A payload is the bytes of a text; the text either is a JSON document or
\* is not.  JSON.parse(new TextDecoder().decode(payload)) gives the document
\* or throws a SyntaxError.
Json(doc) == [text |-> "json", doc |-> doc]
Garbage == [text |-> "garbage"]

ParseThrows(payload) == payload.text # "json"
Parsed(payload) == IF payload.text = "json" THEN payload.doc ELSE Undefined

\* msg.type === name
TypeIs(msg, name) == Get(msg, "type") = JStr(name)

\* The type of a message as a plain string, "" when it has none.
TypeName(payload) ==
    LET t == Get(Parsed(payload), "type")
    IN  IF t.k = "str" THEN t.v ELSE ""

\* (msg.items || []).map((item) => ({recipe: item.recipe || "", ...})) throws
\* when items is truthy but has no map method, and when an item is null.
ItemsOf(msg) == Or(Get(msg, "items"), JList(<<>>))

MapThrows(msg) ==
    \/ ItemsOf(msg).k # "list"
    \/ \E i \in 1..Len(ItemsOf(msg).v) : Nullish(ItemsOf(msg).v[i])

GroceryItem_NoDefaults(item) ==
    [recipe      |-> Get(item, "recipe"),
     ingredients |-> Get(item, "ingredients"),
     checked     |-> Get(item, "checked")]

GroceryItem(item) ==
    [recipe      |-> Or(Get(item, "recipe"), JStr("")),
     ingredients |-> Or(Get(item, "ingredients"), JList(<<>>)),
     checked     |-> Or(Get(item, "checked"), JList(<<>>))]

GroceryItems(msg) == [i \in 1..Len(ItemsOf(msg).v) |-> GroceryItem(ItemsOf(msg).v[i])]

\* recipe_start: setRecipe({title, servings, prepTimeMinutes, ingredients, steps})
RecipeStart_KeepPrev(prev, msg) ==
    JObj(Spread(IF Truthy(prev) THEN prev.v ELSE <<>>,
                [title           |-> Get(msg, "title"),
                 servings        |-> Or(Get(msg, "servings"), JNum(1)),
                 prepTimeMinutes |-> Or(Get(msg, "prep_time_minutes"), JNum(0)),
                 ingredients     |-> Or(Get(msg, "ingredients"), JList(<<>>)),
                 steps           |-> Or(Get(msg, "steps"), JList(<<>>))]))

RecipeStart(prev, msg) ==
    JObj([title           |-> Get(msg, "title"),
          servings        |-> Or(Get(msg, "servings"), JNum(1)),
          prepTimeMinutes |-> Or(Get(msg, "prep_time_minutes"), JNum(0)),
          ingredients     |-> Or(Get(msg, "ingredients"), JList(<<>>)),
          steps           |-> Or(Get(msg, "steps"), JList(<<>>))])

\* recipe_refresh: setRecipe((prev) => prev ? {...prev, title, ingredients, steps} : prev)
RecipeRefresh_NoFallback(prev, msg) ==
    IF Truthy(prev)
    THEN JObj(Spread(prev.v,
                     [title       |-> Get(msg, "title"),
                      ingredients |-> Get(msg, "ingredients"),
                      steps       |-> Get(msg, "steps")]))
    ELSE prev

RecipeRefresh(prev, msg) ==
    IF Truthy(prev)
    THEN JObj(Spread(prev.v,
                     [title       |-> Or(Get(msg, "title"), prev.v["title"]),
                      ingredients |-> Or(Get(msg, "ingredients"), prev.v["ingredients"]),
                      steps       |-> Or(Get(msg, "steps"), prev.v["steps"])]))
    ELSE prev

\* step_update: setRecipe((prev) => prev ? {...prev, currentStep: msg.step_number} : prev)
StepUpdate_NoGuard(prev, msg) ==
    JObj(Spread(IF Truthy(prev) THEN prev.v ELSE <<>>,
                [currentStep |-> Get(msg, "step_number")]))

StepUpdate(prev, msg) ==
    IF Truthy(prev)
    THEN JObj(Spread(prev.v, [currentStep |-> Get(msg, "step_number")]))
    ELSE prev

\* recipe_update: setRecipe((prev) => prev ? {...prev, tutorialUrl, ...} : prev)
RecipeUpdate(prev, msg) ==
    IF Truthy(prev)
    THEN JObj(Spread(prev.v,
                     [tutorialUrl    |-> Get(msg, "tutorial_url"),
                      tutorialTitle  |-> Get(msg, "tutorial_title"),
                      tutorialSource |-> Get(msg, "tutorial_source"),
                      ogImage        |-> Get(msg, "og_image"),
                      ogTitle        |-> Get(msg, "og_title"),
                      ogDescription  |-> Get(msg, "og_description")]))
    ELSE prev

\* topic === name
OnTopic_Any(topic, name) == TRUE

OnTopic(topic, name) == topic = name

\* The branch of handleData a message takes.  "throw" is an exception raised
\* inside the try block; every read that can raise one comes before the
\* first state setter of its branch.
Branch(topic, payload) ==
    LET msg == Parsed(payload) IN
    IF ParseThrows(payload) THEN "throw"
    ELSE IF OnTopic(topic, "timer") /\ Nullish(msg) THEN "throw"
    ELSE IF OnTopic(topic, "timer") /\ TypeIs(msg, "set_timer") THEN "set_timer"
    ELSE IF OnTopic(topic, "camera_request") /\ Nullish(msg) THEN "throw"
    ELSE IF OnTopic(topic, "camera_request") /\ TypeIs(msg, "request_camera") THEN "request_camera"
    ELSE IF OnTopic(topic, "recipe") THEN
        IF Nullish(msg) THEN "throw"
        ELSE IF TypeIs(msg, "recipe_start") THEN "recipe_start"
        ELSE IF TypeIs(msg, "recipe_refresh") THEN "recipe_refresh"
        ELSE IF TypeIs(msg, "step_update") THEN "step_update"
        ELSE IF TypeIs(msg, "recipe_update") THEN "recipe_update"
        ELSE IF TypeIs(msg, "recipe_end") THEN "recipe_end"
        ELSE "none"
    ELSE IF OnTopic(topic, "suggestions") /\ Nullish(msg) THEN "throw"
    ELSE IF OnTopic(topic, "suggestions") /\ TypeIs(msg, "dish_suggestions") THEN "dish_suggestions"
    ELSE IF OnTopic(topic, "grocery_list") THEN
        IF Nullish(msg) THEN "throw"
        ELSE IF TypeIs(msg, "grocery_list_update") \/ TypeIs(msg, "grocery_list_show") THEN
            IF MapThrows(msg) THEN "throw"
            ELSE IF TypeIs(msg, "grocery_list_show") THEN "grocery_list_show"
            ELSE "grocery_list_update"
        ELSE "none"
    ELSE "none"

\* try { ... } catch { /* ignore malformed messages */ }
Escapes_NoCatch(branch) == branch = "throw"

Escapes(branch) == FALSE

\* The (topic, type) pairs handleData has a branch for.
Recognised ==
    {<<"timer", "set_timer">>, <<"camera_request", "request_camera">>,
     <<"recipe", "recipe_start">>, <<"recipe", "recipe_refresh">>,
     <<"recipe", "step_update">>, <<"recipe", "recipe_update">>,
     <<"recipe", "recipe_end">>, <<"suggestions", "dish_suggestions">>,
     <<"grocery_list", "grocery_list_update">>, <<"grocery_list", "grocery_list_show">>}

RecognisedTypes == {r[2] : r \in Recognised}
RecognisedTopics == {r[1] : r \in Recognised}

\* What became of a message, for the record kept in lastEvent: its type is
\* kept when the message took a branch or raised an exception.
MessageEv(branch, topic, payload) ==
    CASE branch = "throw" -> Ev("handleData", TypeName(payload), "caught")
      [] branch = "none" ->
            IF TypeName(payload) \in RecognisedTypes
            THEN Ev("handleData", "", "ignored: other topic")
            ELSE IF topic \in RecognisedTopics
            THEN Ev("handleData", "", "ignored: unknown type")
            ELSE Ev("handleData", "", "ignored: unknown topic")
      [] OTHER -> Ev("handleData", TypeName(payload), "applied")

\* What the branch taken writes to each piece of state.

\* addTimer(msg.label, msg.duration_seconds)
TimersOn(branch, msg) ==
    IF branch = "set_timer"
    THEN WithTimer(timers, nextId, Get(msg, "label"), Get(msg, "duration_seconds"), now)
    ELSE timers

\* setCameraRequest(true)
CameraRequestOn(branch) == IF branch = "request_camera" THEN TRUE ELSE cameraRequest

\* No branch calls setCameraEnabled: request_camera only raises the prompt.
CameraEnabledOn_AutoEnable(branch) ==
    IF branch = "request_camera" THEN TRUE ELSE isCameraEnabled

CameraEnabledOn(branch) == isCameraEnabled

RecipeOn(branch, msg) ==
    CASE branch = "recipe_start"   -> RecipeStart(recipe, msg)
      [] branch = "recipe_refresh" -> RecipeRefresh(recipe, msg)
      [] branch = "step_update"    -> StepUpdate(recipe, msg)
      [] branch = "recipe_update"  -> RecipeUpdate(recipe, msg)
      [] branch = "recipe_end"     -> JNull
      [] OTHER                     -> recipe

\* setDishSuggestions([]) of recipe_start, setDishSuggestions(msg.options || [])
DishSuggestionsOn(branch, msg) ==
    CASE branch = "recipe_start"     -> JList(<<>>)
      [] branch = "dish_suggestions" -> Or(Get(msg, "options"), JList(<<>>))
      [] OTHER                       -> dishSuggestions

GroceryListOn(branch, msg) ==
    IF branch \in {"grocery_list_update", "grocery_list_show"}
    THEN GroceryItems(msg)
    ELSE groceryList

\* setGroceryListOpen(true) comes after the list has been mapped and set.
GroceryListOpenOn(branch) == IF branch = "grocery_list_show" THEN TRUE ELSE groceryListOpen

\* handleData as a function of the state it runs in: what each piece of
\* state is once the handler has returned and the render it caused has run
\* its effects.  addTimer changes the timer list, so the expiry effect runs
\* after it; setRecipe changes what the recipe card is given.
Handled(topic, payload) ==
    LET branch == Branch(topic, payload)
        msg    == Parsed(payload)
        added  == TimersOn(branch, msg)
    IN  [timers          |-> IF branch = "set_timer"
                             THEN TimersAfterEffect(added, now) ELSE added,
         alarms          |-> IF branch = "set_timer"
                             THEN alarms \o AlarmsOfEffect(added, now) ELSE alarms,
         nextId          |-> IF branch = "set_timer" THEN nextId + 1 ELSE nextId,
         cameraRequest   |-> CameraRequestOn(branch),
         recipe          |-> RecipeOn(branch, msg),
         dishSuggestions |-> DishSuggestionsOn(branch, msg),
         groceryList     |-> GroceryListOn(branch, msg),
         groceryListOpen |-> GroceryListOpenOn(branch),
         isCameraEnabled |-> CameraEnabledOn(branch),
         expanded        |-> ExpandedOn(recipe, RecipeOn(branch, msg), expanded),
         activeTab       |-> ActiveTabOn(recipe, RecipeOn(branch, msg), activeTab),
         uncaught        |-> Escapes(branch),
         lastEvent       |-> MessageEv(branch, topic, payload)]

\* room.on(RoomEvent.DataReceived, handleData): one inbound data message.
HandleData(topic, payload) ==
    \E after \in {Handled(topic, payload)} :
        /\ after.nextId <= MaxTimers
        /\ timers' = after.timers
        /\ alarms' = after.alarms
        /\ nextId' = after.nextId
        /\ cameraRequest' = after.cameraRequest
        /\ recipe' = after.recipe
        /\ dishSuggestions' = after.dishSuggestions
        /\ groceryList' = after.groceryList
        /\ groceryListOpen' = after.groceryListOpen
        /\ isCameraEnabled' = after.isCameraEnabled
        /\ expanded' = after.expanded
        /\ activeTab' = after.activeTab
        /\ uncaught' = after.uncaught
        /\ lastEvent' = after.lastEvent
        /\ UNCHANGED <<serverVars, homeVars, now, facingMode, checkbox, outbox>>

---------------------------------------------------------------------------
(* VoiceAssistantUI: what the user can press                               *)

UserEv(op) == Ev(op, "", "")

\* room.localParticipant.setCameraEnabled(true, ...) resolves with the camera
\* on, or rejects (no device, permission denied) with the camera off.
CameraOutcomes == {TRUE, FALSE}

\* The prompt is rendered while cameraRequest && !isCameraEnabled.
PromptShown == cameraRequest /\ ~isCameraEnabled

\* "Enable Camera" of the prompt.
EnableCameraFromRequest(granted) ==
    /\ PromptShown
    /\ cameraRequest' = FALSE
    /\ isCameraEnabled' = granted
    /\ lastEvent' = UserEv("enableCameraFromRequest")
    /\ UNCHANGED <<serverVars, homeVars, now, timerVars, recipe, dishSuggestions,
                   groceryList, groceryListOpen, facingMode, cardVars, checkbox, outbox,
                   uncaught>>

\* "No thanks" of the prompt: onClick={() => setCameraRequest(false)}
DeclineCamera ==
    /\ PromptShown
    /\ cameraRequest' = FALSE
    /\ lastEvent' = UserEv("declineCamera")
    /\ UNCHANGED <<serverVars, homeVars, now, timerVars, recipe, dishSuggestions,
                   groceryList, groceryListOpen, mediaVars, cardVars, checkbox, outbox,
                   uncaught>>

\* setCameraEnabled(!isCameraEnabled)
ToggleCamera(granted) ==
    /\ isCameraEnabled' = IF isCameraEnabled THEN FALSE ELSE granted
    /\ lastEvent' = UserEv("toggleCamera")
    /\ UNCHANGED <<serverVars, homeVars, now, timerVars, panelVars, facingMode,
                   cardVars, checkbox, outbox, uncaught>>

\* The flip button of the camera overlay, rendered while the camera is on:
\* setFacingMode(newMode); setCameraEnabled(false); setCameraEnabled(true, {facingMode}).
FlipCamera(granted) ==
    /\ isCameraEnabled
    /\ facingMode' = IF facingMode = "user" THEN "environment" ELSE "user"
    /\ isCameraEnabled' = granted
    /\ lastEvent' = UserEv("flipCamera")
    /\ UNCHANGED <<serverVars, homeVars, now, timerVars, panelVars, cardVars, checkbox,
                   outbox, uncaught>>

\* JSON.stringify of an object: a key whose value is undefined is left out.
Stringify(obj) ==
    Json(JObj([f \in {g \in DOMAIN obj : obj[g] # Undefined} |-> obj[f]]))

\* publishData(new TextEncoder().encode(msg), {topic: "dish_selection", reliable: true})
SelectDishCall_Lossy(title) ==
    [payload  |-> Stringify([type |-> JStr("select_dish"), title |-> title]),
     topic    |-> "dish_selection",
     reliable |-> FALSE]

SelectDishCall(title) ==
    [payload  |-> Stringify([type |-> JStr("select_dish"), title |-> title]),
     topic    |-> "dish_selection",
     reliable |-> TRUE]

\* dishSuggestions.length > 0 && <DishSuggestions .../>
SuggestionsShown == dishSuggestions.k = "list" /\ Len(dishSuggestions.v) > 0

\* A click on the i-th suggested dish: onSelect(option.title).
SelectDish(i) ==
    /\ SuggestionsShown
    /\ i \in 1..Len(dishSuggestions.v)
    /\ Len(outbox) < MaxInFlight
    /\ dishSuggestions' = JList(<<>>)
    /\ outbox' = Append(outbox, SelectDishCall(Get(dishSuggestions.v[i], "title")))
    /\ lastEvent' = UserEv("selectDish")
    /\ UNCHANGED <<serverVars, homeVars, now, timerVars, cameraRequest, recipe,
                   groceryList, groceryListOpen, mediaVars, cardVars, checkbox,
                   uncaught>>

\* The promise of the oldest publishData call settles: delivered or rejected.
\* Nothing awaits the result but the end of selectDish.
PublishSettles(delivered) ==
    /\ Len(outbox) > 0
    /\ outbox' = Tail(outbox)
    /\ lastEvent' = UserEv(IF delivered THEN "publishResolved" ELSE "publishRejected")
    /\ UNCHANGED <<serverVars, homeVars, now, timerVars, panelVars, mediaVars, cardVars,
                   checkbox, uncaught>>

\* RecipeCard onClose={() => setRecipe(null)}: the close button of the
\* expanded card, rendered while recipe is set.
CloseRecipe ==
    /\ Truthy(recipe)
    /\ expanded
    /\ recipe' = JNull
    /\ expanded' = ExpandedOn(recipe, JNull, expanded)
    /\ activeTab' = ActiveTabOn(recipe, JNull, activeTab)
    /\ lastEvent' = UserEv("closeRecipe")
    /\ UNCHANGED <<serverVars, homeVars, now, timerVars, cameraRequest, dishSuggestions,
                   groceryList, groceryListOpen, mediaVars, checkbox, outbox, uncaught>>

\* The collapsed card is a button: onClick={() => setExpanded(true)}.
ExpandCard ==
    /\ Truthy(recipe)
    /\ ~expanded
    /\ expanded' = TRUE
    /\ lastEvent' = UserEv("expandCard")
    /\ UNCHANGED <<serverVars, homeVars, now, timerVars, panelVars, mediaVars, activeTab,
                   checkbox, outbox, uncaught>>

\* The collapse button of the expanded card: onClick={() => setExpanded(false)}.
CollapseCard ==
    /\ Truthy(recipe)
    /\ expanded
    /\ expanded' = FALSE
    /\ lastEvent' = UserEv("collapseCard")
    /\ UNCHANGED <<serverVars, homeVars, now, timerVars, panelVars, mediaVars, activeTab,
                   checkbox, outbox, uncaught>>

\* The two tab buttons of the expanded card: onClick={() => setActiveTab(tab)}.
SetActiveTab(tab) ==
    /\ Truthy(recipe)
    /\ expanded
    /\ activeTab' = tab
    /\ lastEvent' = UserEv("setActiveTab")
    /\ UNCHANGED <<serverVars, homeVars, now, timerVars, panelVars, mediaVars, expanded,
                   checkbox, outbox, uncaught>>

\* group.checked.includes(x)
Includes(list, x) == \E i \in 1..Len(list.v) : list.v[i] = x

\* toggleGroceryItem: the list after toggling ingredient in group recipeIdx
\* (a 0-based index into the list).
Toggled(prev, recipeIdx, ingredient) ==
    LET group == prev[recipeIdx + 1]
    IN  [prev EXCEPT ![recipeIdx + 1].checked =
            IF Includes(group.checked, ingredient)
            THEN JList(SelectSeq(group.checked.v, LAMBDA c : c # ingredient))
            ELSE JList(Append(group.checked.v, ingredient))]

\* A click on ingredient number i of group recipeIdx of the rendered list.
ToggleGroceryItem(recipeIdx, i) ==
    /\ recipeIdx + 1 \in 1..Len(groceryList)
    /\ i \in 1..Len(groceryList[recipeIdx + 1].ingredients.v)
    /\ groceryList' =
         Toggled(groceryList, recipeIdx, groceryList[recipeIdx + 1].ingredients.v[i])
    /\ lastEvent' = UserEv("toggleGroceryItem")
    /\ UNCHANGED <<serverVars, homeVars, now, timerVars, cameraRequest, recipe,
                   dishSuggestions, groceryListOpen, mediaVars, cardVars, checkbox,
                   outbox, uncaught>>

\* An exception thrown while React renders, with no error boundary around
\* it, unmounts the tree: no handler of the assistant runs after it.
Mounted == ~uncaught

\* The updater of toggleGroceryItem on a list that has no group recipeIdx:
\* updated[recipeIdx] is undefined, {...undefined} is {}, and
\* group.checked.includes raises a TypeError.  (The checked of every group
\* that handleData stores from the messages sent here is a list.)
ToggleThrows(prev, recipeIdx) == recipeIdx + 1 \notin 1..Len(prev)

\* items.map((group, gIdx) => group.ingredients.map((ingredient) => ...
\* onClick={() => onToggle(gIdx, ingredient)})): the render of the list binds
\* a group index and an ingredient into every checkbox; the user's finger
\* is over ingredient number i of group recipeIdx of that render.
AimAtCheckbox(recipeIdx, i) ==
    /\ Mounted
    /\ recipeIdx + 1 \in 1..Len(groceryList)
    /\ i \in 1..Len(groceryList[recipeIdx + 1].ingredients.v)
    /\ checkbox' = [recipeIdx  |-> recipeIdx,
                    ingredient |-> groceryList[recipeIdx + 1].ingredients.v[i]]
    /\ UNCHANGED <<serverVars, homeVars, now, timerVars, panelVars, mediaVars, cardVars,
                   outbox, uncaught, lastEvent>>

\* The click lands on that checkbox: toggleGroceryItem(recipeIdx, ingredient)
\* with what the checkbox was rendered with, its updater run on the list as
\* it is now, which a message may have replaced since that render.
ClickCheckbox ==
    /\ Mounted
    /\ checkbox # NoCheckbox
    /\ IF ToggleThrows(groceryList, checkbox.recipeIdx)
       THEN /\ uncaught' = TRUE
            /\ UNCHANGED groceryList
       ELSE /\ groceryList' = Toggled(groceryList, checkbox.recipeIdx, checkbox.ingredient)
            /\ UNCHANGED uncaught
    /\ checkbox' = NoCheckbox
    /\ lastEvent' = UserEv("toggleGroceryItem")
    /\ UNCHANGED <<serverVars, homeVars, now, timerVars, cameraRequest, recipe,
                   dishSuggestions, groceryListOpen, mediaVars, cardVars, outbox>>

\* The grocery button of the control bar: setGroceryListOpen((o) => !o).
ToggleGroceryListOpen ==
    /\ Len(groceryList) > 0
    /\ groceryListOpen' = ~groceryListOpen
    /\ lastEvent' = UserEv("toggleGroceryListOpen")
    /\ UNCHANGED <<serverVars, homeVars, now, timerVars, cameraRequest, recipe,
                   dishSuggestions, groceryList, mediaVars, cardVars, checkbox, outbox,
                   uncaught>>

---------------------------------------------------------------------------
(* The messages the agent, or anyone else in the room, may send.           *)

NoTopic == "(undefined)"   \* a data message published without a topic
Topics == {"timer", "camera_request", "recipe", "suggestions", "grocery_list",
           "chat", NoTopic}

Typed(name) == JObj([type |-> JStr(name)])

SetTimerDoc ==
    JObj([type |-> JStr("set_timer"), label |-> JStr("eggs"), duration_seconds |-> JNum(1)])

RecipeStartDoc ==
    JObj([type |-> JStr("recipe_start"), title |-> JStr("Soup"), servings |-> JNum(2),
          prep_time_minutes |-> JNum(5), ingredients |-> JList(<<JStr("leek")>>),
          steps |-> JList(<<JStr("chop"), JStr("boil")>>)])

SuggestionsDoc ==
    JObj([type |-> JStr("dish_suggestions"),
          options |-> JList(<<JObj([title |-> JStr("Soup"), description |-> JStr("warm")]),
                              JObj([description |-> JStr("untitled")])>>)])

GroceryUpdateDoc ==
    JObj([type |-> JStr("grocery_list_update"),
          items |-> JList(<<JObj([recipe |-> JStr("Soup"),
                                  ingredients |-> JList(<<JStr("leek")>>),
                                  checked |-> JList(<<>>)])>>)])

GroceryShowDoc ==
    JObj([type |-> JStr("grocery_list_show"),
          items |-> JList(<<JObj([ingredients |-> JList(<<JStr("leek")>>)]),
                            JObj([recipe |-> JStr("Toast")])>>)])

\* One well-formed message of every type.
CoreDocs ==
    {SetTimerDoc, Typed("request_camera"), RecipeStartDoc,
     JObj([type |-> JStr("recipe_refresh"), title |-> JStr("Stew")]),
     JObj([type |-> JStr("step_update"), step_number |-> JNum(1)]),
     JObj([type |-> JStr("recipe_update"), tutorial_url |-> JStr("http://t"),
           og_title |-> JStr("Video")]),
     Typed("recipe_end"), SuggestionsDoc, GroceryUpdateDoc, GroceryShowDoc}

\* Further recipe messages: a recipe_start that leaves every optional field
\* out or falsy.
RecipeDocs ==
    {d \in CoreDocs : \E r \in Recognised : r[1] = "recipe" /\ Get(d, "type") = JStr(r[2])}
        \cup {JObj([type |-> JStr("recipe_start"), title |-> JStr("Toast"),
                    servings |-> JNum(0)])}

\* Further partial recipe messages: a refresh that replaces the ingredients
\* and the steps and leaves the title out, step numbers up to the length of
\* the longest step list, and a recipe_update that carries only a title.
StepNumbers == 1..3

CardDocs ==
    RecipeDocs
        \cup {JObj([type |-> JStr("recipe_refresh"),
                    ingredients |-> JList(<<JStr("leek"), JStr("salt")>>),
                    steps |-> JList(<<JStr("chop"), JStr("boil"), JStr("serve")>>)])}
        \cup {JObj([type |-> JStr("step_update"), step_number |-> JNum(n)]) : n \in StepNumbers}
        \cup {JObj([type |-> JStr("recipe_update"), tutorial_title |-> JStr("Leek soup")])}

SuggestionDocs == {SuggestionsDoc, Typed("dish_suggestions")}

GroceryDocs == {GroceryUpdateDoc, GroceryShowDoc, Typed("grocery_list_update")}

\* A list of two groups that both have an ingredient to tick.
GroceryTwoDoc ==
    JObj([type |-> JStr("grocery_list_update"),
          items |-> JList(<<JObj([recipe |-> JStr("Soup"),
                                  ingredients |-> JList(<<JStr("leek")>>)]),
                            JObj([recipe |-> JStr("Toast"),
                                  ingredients |-> JList(<<JStr("bread")>>),
                                  checked |-> JList(<<JStr("bread")>>)])>>)])

\* Messages whose handling raises an exception.
MalformedDocs ==
    {JNull,
     JObj([type |-> JStr("grocery_list_show"), items |-> JNum(5)]),
     JObj([type |-> JStr("grocery_list_update"), items |-> JList(<<JNull>>)])}

\* Messages no branch is written for.
OtherDocs == {Typed("bogus"), JObj(<<>>), JNum(7)}

CorePayloads == {Json(d) : d \in CoreDocs \cup MalformedDocs \cup OtherDocs} \cup {Garbage}

\* Every payload on every topic.
Everywhere(docs) == Topics \X {Json(d) : d \in docs}

\* Every well-formed message on the topic that has a branch for it.
Routed ==
    {m \in Everywhere(CoreDocs) : <<m[1], TypeName(m[2])>> \in Recognised}

Deliver(inbox) == \E m \in inbox : HandleData(m[1], m[2])

---------------------------------------------------------------------------
(* The mounted assistant.                                                  *)

Configured == [n \in EnvNames |-> JStr("set")]

\* VoiceAssistantUI as first rendered, in a room joined with a token the
\* endpoint issued at time 0.
Init ==
    /\ env = Configured
    /\ response = GET(Configured, 0, "user-a")
    /\ minted = Minted(Configured, 0, "user-a")
    /\ connectionDetails = ConnectDetails(response)
    /\ connected = TRUE
    /\ now = 0
    /\ timers = <<>> /\ nextId = 0 /\ alarms = <<>>
    /\ cameraRequest = FALSE
    /\ recipe = JNull
    /\ dishSuggestions = JList(<<>>)
    /\ groceryList = <<>>
    /\ groceryListOpen = FALSE
    /\ isCameraEnabled = FALSE
    /\ facingMode = "environment"
    /\ expanded = FALSE /\ activeTab = "steps"
    /\ checkbox = NoCheckbox
    /\ outbox = <<>>
    /\ uncaught = FALSE
    /\ lastEvent = UserEv("mount")

CoreInbox == Topics \X CorePayloads

\* Every payload on every topic, and the buttons that only clear state.
Next ==
    \/ Deliver(CoreInbox)
    \/ DeclineCamera
    \/ CloseRecipe
    \/ ToggleGroceryListOpen

Spec == Init /\ [][Next]_vars

---------------------------------------------------------------------------
(* The camera: every well-formed message, request_camera on every topic,   *)
(* and the camera buttons.                                                 *)

CameraInbox == Routed \cup Everywhere({Typed("request_camera")})

NextCamera ==
    \/ Deliver(CameraInbox)
    \/ \E granted \in CameraOutcomes : EnableCameraFromRequest(granted)
    \/ \E granted \in CameraOutcomes : ToggleCamera(granted)
    \/ \E granted \in CameraOutcomes : FlipCamera(granted)
    \/ DeclineCamera

SpecCamera == Init /\ [][NextCamera]_vars

(* Dish suggestions: picking a dish and the fate of its publishData call.  *)

DishesInbox == Routed \cup Everywhere(SuggestionDocs)

NextDishes ==
    \/ Deliver(DishesInbox)
    \/ \E i \in 1..2 : SelectDish(i)
    \/ \E delivered \in BOOLEAN : PublishSettles(delivered)

SpecDishes == Init /\ [][NextDishes]_vars

(* The recipe card.                                                        *)

RecipeInbox == Routed \cup Everywhere(RecipeDocs)

NextRecipe ==
    \/ Deliver(RecipeInbox)
    \/ CloseRecipe

SpecRecipe == Init /\ [][NextRecipe]_vars

(* The recipe card's own state: the partial recipe messages and the        *)
(* buttons of the card.                                                    *)

CardInbox == Everywhere(CardDocs)

NextCard ==
    \/ Deliver(CardInbox)
    \/ ExpandCard
    \/ CollapseCard
    \/ \E tab \in Tabs : SetActiveTab(tab)
    \/ CloseRecipe

SpecCard == Init /\ [][NextCard]_vars

(* The grocery list.                                                       *)

GroceryInbox == Routed \cup Everywhere(GroceryDocs \cup MalformedDocs)

NextGrocery ==
    \/ Deliver(GroceryInbox)
    \/ \E recipeIdx \in 0..1, i \in 1..1 : ToggleGroceryItem(recipeIdx, i)
    \/ ToggleGroceryListOpen

SpecGrocery == Init /\ [][NextGrocery]_vars

(* Ticking a checkbox of the grocery list while messages replace the list. *)

MaxGroups == 2      \* the lists sent have at most this many groups

ToggleInbox == {"grocery_list"} \X {Json(d) : d \in GroceryDocs \cup {GroceryTwoDoc}}

NextToggle ==
    \/ Mounted /\ Deliver(ToggleInbox)
    \/ \E recipeIdx \in 0..(MaxGroups - 1), i \in 1..1 : AimAtCheckbox(recipeIdx, i)
    \/ ClickCheckbox
    \/ Mounted /\ ToggleGroceryListOpen

SpecToggle == Init /\ [][NextToggle]_vars

(* Timers: set_timer messages, the one-second tick, the dismiss button.    *)

TimerDocs ==
    {JObj([type |-> JStr("set_timer"), label |-> JStr("eggs"), duration_seconds |-> JNum(d)])
        : d \in 0..2}
    \cup {JObj([type |-> JStr("set_timer"), label |-> JStr("rice")])}

TimerInbox == {"timer"} \X {Json(d) : d \in TimerDocs}

NextTimers ==
    \/ Deliver(TimerInbox)
    \/ Tick
    \/ \E id \in 0..MaxTimers : DismissTimer(id)

SpecTimers == Init /\ [][NextTimers]_vars

---------------------------------------------------------------------------
(* The page from its first load: the server's environment is whatever the  *)
(* deployment set, nothing is connected and the assistant is not mounted.  *)

InitConnect ==
    /\ env \in [EnvNames -> EnvValues]
    /\ response = NoResponse
    /\ minted = {}
    /\ connectionDetails = JNull
    /\ connected = FALSE
    /\ now = 0
    /\ timers = <<>> /\ nextId = 0 /\ alarms = <<>>
    /\ cameraRequest = FALSE
    /\ recipe = JNull
    /\ dishSuggestions = JList(<<>>)
    /\ groceryList = <<>>
    /\ groceryListOpen = FALSE
    /\ isCameraEnabled = FALSE
    /\ facingMode = "environment"
    /\ expanded = FALSE /\ activeTab = "steps"
    /\ checkbox = NoCheckbox
    /\ outbox = <<>>
    /\ uncaught = FALSE
    /\ lastEvent = UserEv("load")

NextConnect ==
    \/ \E identity \in Identities : Connect(identity)
    \/ RoomConnects
    \/ OnDisconnected
    \/ AdvanceClock

SpecConnect == InitConnect /\ [][NextConnect]_vars

---------------------------------------------------------------------------
(* Claims about the message handler as a whole (specification Spec).       *)

\* The state handleData may write to.
Unchanged(after) ==
    /\ after.timers = timers
    /\ after.cameraRequest = cameraRequest
    /\ after.recipe = recipe
    /\ after.dishSuggestions = dishSuggestions
    /\ after.groceryList = groceryList
    /\ after.groceryListOpen = groceryListOpen

\* C1: in every reachable state, a message whose (topic, type) pair is not
\* one of the ten recognised pairs, whether its topic is unknown, its type is
\* unknown or its type belongs to another topic, leaves timers,
\* cameraRequest, recipe, dishSuggestions, groceryList and groceryListOpen
\* as they are.
C1_OnlyRecognisedPairsChangeState ==
    \A m \in CoreInbox :
        <<m[1], TypeName(m[2])>> \notin Recognised => Unchanged(Handled(m[1], m[2]))

\* A message of another topic's type has just been handled in a state where
\* every piece of UI state holds something.
C1_Witness ==
    /\ lastEvent = Ev("handleData", "", "ignored: other topic")
    /\ Len(timers) > 0
    /\ cameraRequest
    /\ Truthy(recipe)
    /\ Len(dishSuggestions.v) > 0
    /\ Len(groceryList) > 0
    /\ groceryListOpen

\* The payloads whose handling raises an exception: text that is not JSON;
\* a JSON null on a topic whose branch reads msg.type; a grocery_list
\* message whose items is not a list or holds a null.
Malformed(topic, payload) ==
    \/ payload = Garbage
    \/ /\ payload # Garbage
       /\ payload.doc = JNull
       /\ topic \in RecognisedTopics
    \/ /\ payload # Garbage
       /\ topic = "grocery_list"
       /\ payload.doc \in {JObj([type |-> JStr("grocery_list_show"), items |-> JNum(5)]),
                           JObj([type |-> JStr("grocery_list_update"),
                                 items |-> JList(<<JNull>>)])}

\* C2: in every reachable state, a malformed message raises nothing out of
\* the handler and leaves every piece of UI state, groceryListOpen
\* included, as it is, so the messages after it are handled from the same
\* state as if it had never arrived.
C2_MalformedMessagesIgnored ==
    /\ ~uncaught
    /\ \A m \in CoreInbox :
        Malformed(m[1], m[2]) =>
            LET after == Handled(m[1], m[2])
            IN  /\ Unchanged(after)
                /\ after.nextId = nextId
                /\ after.alarms = alarms
                /\ after.isCameraEnabled = isCameraEnabled
                /\ ~after.uncaught

\* A grocery_list_show whose items could not be mapped has just been
\* handled: the list shown before is still there and was not opened.
C2_Witness ==
    /\ lastEvent = Ev("handleData", "grocery_list_show", "caught")
    /\ Len(groceryList) > 0
    /\ ~groceryListOpen
    /\ ~uncaught

---------------------------------------------------------------------------
(* Claims about timers (specification SpecTimers).                         *)

\* C3: a timer that is not dismissed is gone from the timer list within
\* one tick of the clock reaching its endsAt: no timer of the list has
\* an endsAt more than a full second in the past.
C3_ExpiredTimersRemovedWithinTick ==
    \A i \in 1..Len(timers) :
        timers[i].endsAt.k = "num" => timers[i].endsAt.v >= now

---------------------------------------------------------------------------
(* Claims about the token endpoint and the page (specification             *)
(* SpecConnect).                                                           *)

Unset(e) == {n \in EnvNames : e[n] \in {Undefined, JStr("")}}

\* The grant of a token that lets its holder join, publish and subscribe
\* in room r only.
GrantFor(r) == [roomJoin |-> TRUE, room |-> r, canPublish |-> TRUE, canSubscribe |-> TRUE]

\* C4: every request answered while one of the three variables is unset or
\* empty gets status 500 with the error body and signs no token; every
\* request answered while all three are set gets {token, url} with url the
\* LIVEKIT_URL and a token whose grant is roomJoin, canPublish and
\* canSubscribe for the room named after the time of that request.
C4_TokenEndpoint ==
    [][lastEvent'.op = "connect" =>
        IF Unset(env) # {}
        THEN /\ response'.status = 500
             /\ DOMAIN response'.body.v = {"error"}
             /\ minted' = minted
        ELSE /\ response'.status = 200
             /\ DOMAIN response'.body.v = {"token", "url"}
             /\ response'.body.v["url"] = env["LIVEKIT_URL"]
             /\ response'.body.v["token"].v.video = GrantFor(RoomName(now))
             /\ minted' = minted \cup {response'.body.v["token"].v}
             /\ \A t \in minted' : \E r \in {RoomName(n) : n \in 0..MaxTime} :
                    t.video = GrantFor(r)]_vars

\* A request was refused although only LIVEKIT_URL was missing.
C4_Witness ==
    /\ response.status = 500
    /\ Unset(env) = {"LIVEKIT_URL"}
    /\ minted = {}

\* C9: the room connection is mounted only with a token and a url obtained
\* from a successful token request.
C9_RoomMountedOnlyWithToken ==
    RoomMounted(connectionDetails) =>
        /\ response.status = 200
        /\ Truthy(RoomToken(connectionDetails))
        /\ Truthy(RoomServerUrl(connectionDetails))

---------------------------------------------------------------------------
(* Claims about the camera (specification SpecCamera).                     *)

UserCameraOps == {"enableCameraFromRequest", "toggleCamera", "flipCamera"}

\* C5: no inbound message changes whether the camera is enabled, and a
\* request_camera message sets the pending-request flag and nothing else;
\* the camera goes from off to on only in a step of the Enable Camera
\* button, the camera toggle or the flip button; "No thanks" clears the
\* flag and leaves the camera as it is.
C5_CameraOnlyByUser ==
    /\ [](\A m \in CameraInbox :
            LET after == Handled(m[1], m[2])
            IN  /\ after.isCameraEnabled = isCameraEnabled
                /\ (m[1] = "camera_request" /\ TypeName(m[2]) = "request_camera") =>
                        /\ after.cameraRequest
                        /\ after.timers = timers
                        /\ after.recipe = recipe
                        /\ after.dishSuggestions = dishSuggestions
                        /\ after.groceryList = groceryList
                        /\ after.groceryListOpen = groceryListOpen)
    /\ [][(~isCameraEnabled /\ isCameraEnabled') => lastEvent'.op \in UserCameraOps]_vars
    /\ [][lastEvent'.op = "declineCamera" =>
            ~cameraRequest' /\ isCameraEnabled' = isCameraEnabled]_vars

\* A request_camera message has just been handled: the prompt is pending
\* and the camera is still off.
C5_Witness ==
    /\ lastEvent = Ev("handleData", "request_camera", "applied")
    /\ cameraRequest
    /\ ~isCameraEnabled

---------------------------------------------------------------------------
(* Claims about dish suggestions (specification SpecDishes).               *)

\* The JSON text of {type: "select_dish", title}.
SelectDishText(title) ==
    IF title = Undefined
    THEN Json(JObj([type |-> JStr("select_dish")]))
    ELSE Json(JObj([type |-> JStr("select_dish"), title |-> title]))

\* C6: a selectDish step empties the suggestions and adds exactly one
\* publishData call, reliable, on topic dish_selection, carrying
\* {type: "select_dish", title} for the title of a displayed option, the
\* suggestions being empty while that call is still unsettled; nothing but
\* selectDish publishes, so a rejected call is not retried; the settling of
\* a call, delivered or rejected, leaves the suggestions as they are; and
\* the suggestions become non-empty again only by a dish_suggestions message.
C6_SelectDish ==
    /\ [][lastEvent'.op = "selectDish" =>
            /\ dishSuggestions' = JList(<<>>)
            /\ Len(outbox') = Len(outbox) + 1
            /\ SubSeq(outbox', 1, Len(outbox)) = outbox
            /\ \E i \in 1..Len(dishSuggestions.v) :
                    outbox'[Len(outbox')] =
                        [payload  |-> SelectDishText(Get(dishSuggestions.v[i], "title")),
                         topic    |-> "dish_selection",
                         reliable |-> TRUE]]_vars
    /\ [][Len(outbox') > Len(outbox) => lastEvent'.op = "selectDish"]_vars
    /\ [][lastEvent'.op \in {"publishResolved", "publishRejected"} =>
            /\ dishSuggestions' = dishSuggestions
            /\ outbox' = Tail(outbox)]_vars
    /\ [][(Len(dishSuggestions.v) = 0 /\ Len(dishSuggestions'.v) > 0) =>
            lastEvent' = Ev("handleData", "dish_suggestions", "applied")]_vars

\* The publishData call of a selection has just been rejected: nothing is
\* in flight and the suggestions are still empty.
C6_Witness ==
    /\ lastEvent.op = "publishRejected"
    /\ outbox = <<>>
    /\ dishSuggestions = JList(<<>>)

---------------------------------------------------------------------------
(* Claims about the recipe card (specification SpecRecipe).                *)

\* The value of field f of a JSON object, or default when the field is
\* missing, null, 0 or "".
Field(obj, f, default) ==
    IF f \in DOMAIN obj /\ obj[f] \notin {JNull, JNum(0), JStr("")} THEN obj[f] ELSE default

RecipeKeys == {"title", "servings", "prepTimeMinutes", "ingredients", "steps"}

\* C7: in every reachable state, a recipe_start message on topic recipe
\* makes the recipe an object of exactly the five fields title, servings,
\* prepTimeMinutes, ingredients and steps, taken from the message with the
\* defaults 1, 0, [] and [], whatever the recipe was before; it empties the
\* suggestions and leaves timers, cameraRequest and the grocery list alone.
C7_RecipeStartReplaces ==
    \A m \in RecipeInbox :
        (m[1] = "recipe" /\ TypeName(m[2]) = "recipe_start") =>
            LET after == Handled(m[1], m[2])
                doc   == m[2].doc.v
            IN  /\ after.recipe.k = "obj"
                /\ DOMAIN after.recipe.v = RecipeKeys
                /\ after.recipe.v["title"] = doc["title"]
                /\ after.recipe.v["servings"] = Field(doc, "servings", JNum(1))
                /\ after.recipe.v["prepTimeMinutes"] = Field(doc, "prep_time_minutes", JNum(0))
                /\ after.recipe.v["ingredients"] = Field(doc, "ingredients", JList(<<>>))
                /\ after.recipe.v["steps"] = Field(doc, "steps", JList(<<>>))
                /\ after.dishSuggestions = JList(<<>>)
                /\ after.timers = timers
                /\ after.cameraRequest = cameraRequest
                /\ after.groceryList = groceryList
                /\ after.groceryListOpen = groceryListOpen

\* The recipe_start that leaves the optional fields out has just been
\* handled while timers, a camera request and a grocery list were present.
C7_Witness ==
    /\ lastEvent = Ev("handleData", "recipe_start", "applied")
    /\ recipe = JObj([title |-> JStr("Toast"), servings |-> JNum(1),
                      prepTimeMinutes |-> JNum(0), ingredients |-> JList(<<>>),
                      steps |-> JList(<<>>)])
    /\ Len(timers) > 0
    /\ cameraRequest
    /\ Len(groceryList) > 0

PartialRecipeTypes == {"recipe_refresh", "step_update", "recipe_update"}

\* C10: in every reachable state without a recipe, recipe_refresh,
\* step_update and recipe_update leave the recipe absent and change nothing;
\* in every reachable state recipe_end makes the recipe absent and changes
\* nothing else, and so does every step of the close button.
C10_NoRecipeStaysAbsent ==
    /\ [](\A m \in RecipeInbox :
            LET after == Handled(m[1], m[2])
            IN  /\ (recipe = JNull /\ m[1] = "recipe" /\ TypeName(m[2]) \in PartialRecipeTypes)
                        => (after.recipe = JNull /\ Unchanged(after))
                /\ (m[1] = "recipe" /\ TypeName(m[2]) = "recipe_end")
                        => /\ after.recipe = JNull
                           /\ after.timers = timers
                           /\ after.cameraRequest = cameraRequest
                           /\ after.dishSuggestions = dishSuggestions
                           /\ after.groceryList = groceryList
                           /\ after.groceryListOpen = groceryListOpen)
    /\ [][lastEvent'.op = "closeRecipe" =>
            /\ recipe' = JNull
            /\ UNCHANGED <<timers, cameraRequest, dishSuggestions, groceryList,
                           groceryListOpen>>]_vars

\* A step_update has just been handled with no recipe displayed.
C10_Witness ==
    /\ lastEvent = Ev("handleData", "step_update", "applied")
    /\ recipe = JNull
    /\ Len(timers) > 0
    /\ Len(dishSuggestions.v) > 0

---------------------------------------------------------------------------
(* Claims about the grocery list (specification SpecGrocery).              *)

ExpectedGroup(item) ==
    [recipe      |-> IF item.k = "obj" THEN Field(item.v, "recipe", JStr("")) ELSE JStr(""),
     ingredients |-> IF item.k = "obj" THEN Field(item.v, "ingredients", JList(<<>>))
                     ELSE JList(<<>>),
     checked     |-> IF item.k = "obj" THEN Field(item.v, "checked", JList(<<>>))
                     ELSE JList(<<>>)]

ExpectedGroups(doc) ==
    IF "items" \in DOMAIN doc
    THEN [i \in 1..Len(doc["items"].v) |-> ExpectedGroup(doc["items"].v[i])]
    ELSE <<>>

\* C8: in every reachable state, a well-formed grocery_list_update on topic
\* grocery_list makes the grocery list the message's items with the
\* defaults "", [] and [], whatever was checked before, and leaves
\* groceryListOpen alone; a grocery_list_show does the same and sets
\* groceryListOpen; and no step of a local toggle publishes anything.
C8_GroceryListReplaced ==
    /\ [](\A m \in GroceryInbox :
            (/\ m[1] = "grocery_list"
             /\ TypeName(m[2]) \in {"grocery_list_update", "grocery_list_show"}
             /\ ~Malformed(m[1], m[2])) =>
                LET after == Handled(m[1], m[2])
                IN  /\ after.groceryList = ExpectedGroups(m[2].doc.v)
                    /\ after.groceryListOpen =
                         IF TypeName(m[2]) = "grocery_list_show" THEN TRUE
                         ELSE groceryListOpen)
    /\ [][lastEvent'.op = "toggleGroceryItem" => outbox' = outbox]_vars

\* A grocery_list_update has just replaced the list: its one group has
\* nothing checked and the list is still closed.
C8_Witness ==
    /\ lastEvent = Ev("handleData", "grocery_list_update", "applied")
    /\ Len(groceryList) = 1
    /\ groceryList[1].checked = JList(<<>>)
    /\ ~groceryListOpen

---------------------------------------------------------------------------
(* Claims about the partial recipe messages and the card (specification    *)
(* SpecCard).                                                              *)

RefreshKeys == {"title", "ingredients", "steps"}

\* The field of the recipe each field of a recipe_update message is stored in.
TutorialKeys ==
    [tutorialUrl |-> "tutorial_url", tutorialTitle |-> "tutorial_title",
     tutorialSource |-> "tutorial_source", ogImage |-> "og_image",
     ogTitle |-> "og_title", ogDescription |-> "og_description"]

\* Field f of a displayed recipe, undefined when the recipe has no such field.
Shown(r, f) == IF f \in DOMAIN r.v THEN r.v[f] ELSE Undefined

AllRecipeFields == RecipeKeys \cup {"currentStep"} \cup DOMAIN TutorialKeys

\* C11: in every reachable state with a recipe displayed, a recipe_refresh
\* on topic recipe gives title, ingredients and steps the message's value,
\* or the previous value where the message has none, and leaves every other
\* field of the recipe as it was; a step_update gives currentStep the
\* message's step_number and leaves every other field as it was; a
\* recipe_update gives each of the six tutorial/og fields the message's
\* value, undefined where the message has none, and leaves every other
\* field as it was; and none of the three changes anything outside the recipe.
C11_PartialMessagesChangeOwnFields ==
    \A m \in CardInbox :
        (Truthy(recipe) /\ m[1] = "recipe" /\ TypeName(m[2]) \in PartialRecipeTypes) =>
            LET after == Handled(m[1], m[2])
                doc   == m[2].doc.v
                own   == CASE TypeName(m[2]) = "recipe_refresh" -> RefreshKeys
                           [] TypeName(m[2]) = "step_update"    -> {"currentStep"}
                           [] OTHER                             -> DOMAIN TutorialKeys
            IN  /\ after.recipe.k = "obj"
                /\ DOMAIN after.recipe.v \subseteq AllRecipeFields
                /\ \A f \in AllRecipeFields \ own : Shown(after.recipe, f) = Shown(recipe, f)
                /\ TypeName(m[2]) = "recipe_refresh" =>
                        \A f \in RefreshKeys :
                            Shown(after.recipe, f) = Field(doc, f, Shown(recipe, f))
                /\ TypeName(m[2]) = "step_update" =>
                        Shown(after.recipe, "currentStep") = doc["step_number"]
                /\ TypeName(m[2]) = "recipe_update" =>
                        \A f \in DOMAIN TutorialKeys :
                            Shown(after.recipe, f) =
                                IF TutorialKeys[f] \in DOMAIN doc THEN doc[TutorialKeys[f]]
                                ELSE Undefined
                /\ after.timers = timers
                /\ after.cameraRequest = cameraRequest
                /\ after.dishSuggestions = dishSuggestions
                /\ after.groceryList = groceryList
                /\ after.groceryListOpen = groceryListOpen

\* A recipe_update that carries only a tutorial title has just been handled
\* on a recipe that had a tutorial url, a refreshed title and step 2 current:
\* the url is gone, the title and the step are still there.
C11_Witness ==
    /\ lastEvent = Ev("handleData", "recipe_update", "applied")
    /\ Truthy(recipe)
    /\ Shown(recipe, "tutorialUrl") = Undefined
    /\ Shown(recipe, "tutorialTitle") = JStr("Leek soup")
    /\ Shown(recipe, "title") = JStr("Stew")
    /\ Shown(recipe, "currentStep") = JNum(2)
    /\ Len(Shown(recipe, "steps").v) = 3

C13_StepUpdateShowsSteps ==
    (/\ lastEvent = Ev("handleData", "step_update", "applied")
     /\ Truthy(recipe)
     /\ StepIsSet(Shown(recipe, "currentStep")))
        => (expanded /\ activeTab = "steps")

---------------------------------------------------------------------------
(* Claims about ticking the grocery list (specification SpecToggle).       *)

\* Every group has a recipe name, a list of ingredients and a list of
\* checked ingredients.
WellFormed(list) ==
    \A g \in 1..Len(list) :
        /\ DOMAIN list[g] = {"recipe", "ingredients", "checked"}
        /\ list[g].recipe.k = "str"
        /\ list[g].ingredients.k = "list"
        /\ list[g].checked.k = "list"

\* C14: every click on a grocery checkbox, also one whose checkbox was
\* rendered before a grocery_list_update or grocery_list_show replaced the
\* list, raises nothing, leaves a well-formed list and leaves the list
\* with as many groups as the last message gave it.
C14_ToggleSafeAfterReplacement ==
    [][lastEvent'.op = "toggleGroceryItem" =>
            /\ ~uncaught'
            /\ WellFormed(groceryList')
            /\ Len(groceryList') = Len(groceryList)]_vars

====
